---------------------------- MODULE Spec2Model ----------------------------
(***************************************************************************)
(* A model of the command gateway's decision engine:                       *)
(*   backend/guard.py         CommandGuard.analyze      (Layer 2 scorer)   *)
(*   backend/orchestrator.py  CommandOrchestrator.process_command          *)
(*   backend/ai_judge.py      judge_command             (Layer 3 judge)    *)
(*   backend/conflict.py      ConflictDetector.check_overlap               *)
(*   backend/server.py        create_rule, update_rule, delete_rule,       *)
(*                            execute_command                              *)
(*                                                                         *)
(* Text (command texts, regex patterns, shell tokens) is a sequence of     *)
(* one-character strings, so that tokenizing, substring search and prefix  *)
(* tests are computed character by character as the code does.             *)
(***************************************************************************)
EXTENDS Integers, Sequences, FiniteSets, TLC

(***************************************************************************)
(* Bounds of the model.                                                    *)
(***************************************************************************)
\* Largest number of rows of the rules table.
MaxRules == 2
\* Largest number of arguments after the binary in a scored command text.
MaxArgs == 2
\* Largest number of existing patterns handed to check_overlap.
MaxExisting == 2
\* Largest number of rule requests (create, update, delete) served.
MaxRequests == 3
\* Largest number of credits the requesting user starts with.
MaxCredits == 2
\* Number of execute_command requests of one user that run concurrently.
MaxConcurrent == 2
\* Largest number of credit updates the admin makes.
MaxAdminUpdates == 1

(***************************************************************************)
(* Text helpers: Python's str operations used by the code.                 *)
(***************************************************************************)
\* `ch in s`
Has(s, ch) == \E i \in 1..Len(s) : s[i] = ch

\* s.startswith(p)
StartsWith(s, p) ==
    /\ Len(p) <= Len(s)
    /\ \A i \in 1..Len(p) : s[i] = p[i]

\* p occurs in s at offset k (0-based), i.e. s[k:k+len(p)] == p
OccursAt(s, p, k) ==
    /\ k + Len(p) <= Len(s)
    /\ \A i \in 1..Len(p) : s[k + i] = p[i]

\* s without its first character
Tail1(s) == SubSeq(s, 2, Len(s))

(***************************************************************************)
(* shlex.split(command_text): POSIX mode, whitespace_split, no comments.   *)
(* The lexer states are those of shlex.read_token: " " between tokens,     *)
(* "a" inside a word, a quote character inside quotes, "\\" after an       *)
(* escape character.  A ValueError ("No closing quotation", "No escaped    *)
(* character") is the result [ok |-> FALSE].                               *)
(***************************************************************************)
Whitespace == {" ", "\t", "\r", "\n"}
Quotes == {"'", "\""}
EscapeChar == "\\"
\* shlex.escapedquotes: only inside double quotes is the backslash an escape
EscapedQuotes == {"\""}

RECURSIVE ShlexRun(_, _, _, _, _, _)
ShlexRun(s, i, st, esc, tok, out) ==
    IF i > Len(s)
    THEN IF st \in Quotes \/ st = EscapeChar
         THEN [ok |-> FALSE, tokens |-> <<>>]
         ELSE [ok |-> TRUE,
               tokens |-> IF st = "a" THEN Append(out, tok) ELSE out]
    ELSE LET c == s[i] IN
         CASE st = " " ->
                IF c \in Whitespace THEN ShlexRun(s, i + 1, " ", esc, <<>>, out)
                ELSE IF c = EscapeChar THEN ShlexRun(s, i + 1, EscapeChar, "a", <<>>, out)
                ELSE IF c \in Quotes THEN ShlexRun(s, i + 1, c, esc, <<>>, out)
                ELSE ShlexRun(s, i + 1, "a", esc, <<c>>, out)
           [] st = "a" ->
                IF c \in Whitespace THEN ShlexRun(s, i + 1, " ", esc, <<>>, Append(out, tok))
                ELSE IF c \in Quotes THEN ShlexRun(s, i + 1, c, esc, tok, out)
                ELSE IF c = EscapeChar THEN ShlexRun(s, i + 1, EscapeChar, "a", tok, out)
                ELSE ShlexRun(s, i + 1, "a", esc, Append(tok, c), out)
           [] st \in Quotes ->
                IF c = st THEN ShlexRun(s, i + 1, "a", esc, tok, out)
                ELSE IF c = EscapeChar /\ st \in EscapedQuotes
                     THEN ShlexRun(s, i + 1, EscapeChar, st, tok, out)
                ELSE ShlexRun(s, i + 1, st, esc, Append(tok, c), out)
           [] OTHER ->  \* st = EscapeChar
                LET keep == esc \in Quotes /\ c # EscapeChar /\ c # esc
                    tok2 == IF keep THEN Append(Append(tok, EscapeChar), c)
                                    ELSE Append(tok, c)
                IN  ShlexRun(s, i + 1, esc, esc, tok2, out)

\* shlex_split taking a failed tokenization for an empty token list.
shlex_split_Lenient(text) ==
    LET r == ShlexRun(text, 1, " ", " ", <<>>, <<>>)
    IN  [ok |-> TRUE, tokens |-> IF r.ok THEN r.tokens ELSE <<>>]

shlex_split(text) == ShlexRun(text, 1, " ", " ", <<>>, <<>>)

(***************************************************************************)
(* CommandGuard: the tables of guard.py.                                   *)
(***************************************************************************)
BINARY_RISK ==
    {<<<<"r", "m">>, 60>>,
     <<<<"d", "d">>, 100>>,
     <<<<"m", "k", "f", "s">>, 100>>,
     <<<<"w", "g", "e", "t">>, 40>>,
     <<<<"c", "u", "r", "l">>, 40>>,
     <<<<"m", "v">>, 30>>,
     <<<<"c", "h", "m", "o", "d">>, 40>>,
     <<<<"c", "h", "o", "w", "n">>, 40>>,
     <<<<"s", "u", "d", "o">>, 50>>,
     <<<<"n", "c">>, 50>>,
     <<<<"n", "e", "t", "c", "a", "t">>, 50>>,
     <<<<"s", "s", "h">>, 30>>,
     <<<<"s", "c", "p">>, 30>>,
     <<<<"f", "t", "p">>, 30>>,
     <<<<"p", "y", "t", "h", "o", "n">>, 50>>,
     <<<<"p", "y", "t", "h", "o", "n", "3">>, 50>>,
     <<<<"p", "e", "r", "l">>, 50>>,
     <<<<"r", "u", "b", "y">>, 50>>,
     <<<<"b", "a", "s", "h">>, 50>>,
     <<<<"s", "h">>, 50>>,
     <<<<"z", "s", "h">>, 50>>,
     <<<<"l", "s">>, 0>>,
     <<<<"p", "w", "d">>, 0>>,
     <<<<"e", "c", "h", "o">>, 0>>,
     <<<<"c", "a", "t">>, 0>>,
     <<<<"g", "r", "e", "p">>, 0>>,
     <<<<"f", "i", "n", "d">>, 10>>,
     <<<<"w", "h", "o", "a", "m", "i">>, 0>>,
     <<<<"i", "d">>, 0>>}

DEFAULT_BINARY_RISK == 20

RISKY_FLAGS ==
    {<<"-", "f">>, <<"-", "-", "f", "o", "r", "c", "e">>,
     <<"-", "r">>, <<"-", "-", "r", "e", "c", "u", "r", "s", "i", "v", "e">>}

\* the literals of `token in ['-f', '--force']`
ForceFlags == {<<"-", "f">>, <<"-", "-", "f", "o", "r", "c", "e">>}

\* the literals of `token in ['-r', '-R', '--recursive']`
RecursiveFlags ==
    {<<"-", "r">>, <<"-", "R">>,
     <<"-", "-", "r", "e", "c", "u", "r", "s", "i", "v", "e">>}

CRITICAL_TARGETS ==
    <<<<"/">>,
      <<"/", "e", "t", "c">>,
      <<"/", "v", "a", "r">>,
      <<"/", "b", "o", "o", "t">>,
      <<"/", "b", "i", "n">>,
      <<"/", "s", "b", "i", "n">>,
      <<"/", "u", "s", "r", "/", "b", "i", "n">>,
      <<"/", "u", "s", "r", "/", "s", "b", "i", "n">>>>

\* BinaryRisk giving a known-safe binary a discount instead of 0.
BinaryRisk_SafeDiscount(binary) ==
    IF \E e \in BINARY_RISK : e[1] = binary
    THEN LET risk == (CHOOSE e \in BINARY_RISK : e[1] = binary)[2]
         IN  IF risk = 0 THEN 0 - 10 ELSE risk
    ELSE DEFAULT_BINARY_RISK

\* cls.BINARY_RISK.get(binary, cls.DEFAULT_BINARY_RISK)
BinaryRisk(binary) ==
    IF \E e \in BINARY_RISK : e[1] = binary
    THEN (CHOOSE e \in BINARY_RISK : e[1] = binary)[2]
    ELSE DEFAULT_BINARY_RISK

\* token == critical or (token.startswith(critical + '/') and len(token) > len(critical))
MatchesCritical(token, critical) ==
    \/ token = critical
    \/ (StartsWith(token, Append(critical, "/")) /\ Len(token) > Len(critical))

\* the inner `for critical in cls.CRITICAL_TARGETS: ... break`
HitsCriticalTarget(token) ==
    \E k \in 1..Len(CRITICAL_TARGETS) : MatchesCritical(token, CRITICAL_TARGETS[k])

\* One iteration of `for token in tokens[1:]` on the running state
\* acc = [score, reasons, has_force, has_recursive].
TokenStep(acc, token) ==
    LET flag   == token \in RISKY_FLAGS
        target == HitsCriticalTarget(token)
        r1     == IF flag THEN Append(acc.reasons, <<"Risky flag", token, 20>>)
                          ELSE acc.reasons
        r2     == IF target THEN Append(r1, <<"Critical target", token, 100>>)
                            ELSE r1
    IN  [score         |-> acc.score + (IF flag THEN 20 ELSE 0)
                                     + (IF target THEN 100 ELSE 0),
         reasons       |-> r2,
         has_force     |-> acc.has_force \/ token \in ForceFlags,
         has_recursive |-> acc.has_recursive \/ token \in RecursiveFlags]

RECURSIVE TokenLoop(_, _, _)
TokenLoop(tokens, i, acc) ==
    IF i > Len(tokens) THEN acc
    ELSE TokenLoop(tokens, i + 1, TokenStep(acc, tokens[i]))

\* DecisionOf blocking only above 100.
DecisionOf_BlocksAbove(score) ==
    IF score > 100 THEN "BLOCK"
    ELSE IF score = 0 THEN "ALLOW"
    ELSE "ESCALATE"

\* `if score >= 100 ... elif score == 0 ... else ...` at the end of analyze
DecisionOf(score) ==
    IF score >= 100 THEN "BLOCK"
    ELSE IF score = 0 THEN "ALLOW"
    ELSE "ESCALATE"

\* CommandGuard.analyze(command_text) -> (decision, score, reason)
analyze(command_text) ==
    LET piped  == Has(command_text, "|") \/ Has(command_text, ">")
        s0     == IF piped THEN 30 ELSE 0
        rs0    == IF piped THEN <<<<"Piping/Redirection detected", <<>>, 30>>>> ELSE <<>>
        split  == shlex_split(command_text)
    IN  IF ~split.ok
        THEN [decision |-> "BLOCK", score |-> 100,
              reason |-> <<<<"Malformed command syntax", <<>>, 0>>>>]
        ELSE IF split.tokens = <<>>
        THEN [decision |-> "ALLOW", score |-> 0,
              reason |-> <<<<"Empty command", <<>>, 0>>>>]
        ELSE
        LET tokens    == split.tokens
            binary    == tokens[1]
            bin_score == BinaryRisk(binary)
            rs1       == IF bin_score > 0
                         THEN Append(rs0, <<"Binary risk", binary, bin_score>>)
                         ELSE rs0
            looped    == TokenLoop(tokens, 2,
                            [score |-> s0 + bin_score, reasons |-> rs1,
                             has_force |-> FALSE, has_recursive |-> FALSE])
            combo     == binary = <<"r", "m">> /\ looped.has_force /\ looped.has_recursive
            score     == looped.score + (IF combo THEN 50 ELSE 0)
            reasons   == IF combo
                         THEN Append(looped.reasons,
                                     <<"Destructive combination 'rm -rf'", <<>>, 50>>)
                         ELSE looped.reasons
        IN  [decision |-> DecisionOf(score), score |-> score,
             reason |-> IF reasons # <<>> THEN reasons
                        ELSE <<<<"Safe command", <<>>, 0>>>>]


(***************************************************************************)
(* re.search(rule['pattern'], command_text) for the pattern subset the     *)
(* model's rules use: an optional leading "^" followed by literal          *)
(* characters.  A pattern with an unmatched parenthesis does not compile   *)
(* (re.error).                                                             *)
(***************************************************************************)
ReCompiles(pattern) == ~Has(pattern, "(") /\ ~Has(pattern, ")")

ReSearch(pattern, text) ==
    IF pattern # <<>> /\ pattern[1] = "^"
    THEN StartsWith(text, Tail1(pattern))
    ELSE \E k \in 0..Len(text) : OccursAt(text, pattern, k)

(***************************************************************************)
(* Inputs: the command texts submitted and the rows the rules table holds. *)
(***************************************************************************)
Cmd_ls_la       == <<"l", "s", " ", "-", "l", "a">>
Cmd_rm_rf_etc   == <<"r", "m", " ", "-", "r", "f", " ", "/", "e", "t", "c">>
Cmd_rm_r_f_root == <<"r", "m", " ", "-", "r", " ", "-", "f", " ", "/">>
Cmd_sudo_reboot == <<"s", "u", "d", "o", " ", "r", "e", "b", "o", "o", "t">>
Cmd_foo         == <<"f", "o", "o">>
Cmd_empty       == <<>>
Cmd_open_quote  == <<"e", "c", "h", "o", " ", "'", "x">>
Cmd_ls_pipe_rm  == <<"l", "s", " ", "|", " ", "r", "m">>
Cmd_dd          == <<"d", "d">>

Commands ==
    {Cmd_ls_la, Cmd_rm_rf_etc, Cmd_rm_r_f_root, Cmd_sudo_reboot, Cmd_foo,
     Cmd_empty, Cmd_open_quote, Cmd_ls_pipe_rm, Cmd_dd}

Pat_rm_rf  == <<"^", "r", "m", " ", "-", "r", "f">>
Pat_ls     == <<"^", "l", "s">>
Pat_reboot == <<"r", "e", "b", "o", "o", "t">>
Pat_bad    == <<"(">>

Patterns == {Pat_rm_rf, Pat_ls, Pat_reboot, Pat_bad}

\* models.Rule.action: Literal["AUTO_ACCEPT", "AUTO_REJECT"]
Actions == {"AUTO_ACCEPT", "AUTO_REJECT"}

\* A row of the rules table without its id.
RowKinds ==
    [pattern : Patterns, action : Actions, is_active : BOOLEAN,
     description : {"desc"}]

\* The id of the i-th row created (the store's ids are opaque strings).
RuleId(i) == "rule_" \o ToString(i)

\* Rows get their ids in creation order; the table is kept in created_at order.
WithIds(rows) ==
    [i \in 1..Len(rows) |->
        [id |-> RuleId(i), pattern |-> rows[i].pattern, action |-> rows[i].action,
         is_active |-> rows[i].is_active, description |-> rows[i].description]]

RuleTables ==
    {WithIds(rows) : rows \in UNION {[1..n -> RowKinds] : n \in 0..MaxRules}}

\* What the model's backend may hand back to judge_command:
\*   raises      generate_content (or response.text) raises, e.g. a timeout
\*   not_json    json.loads raises
\*   json_scalar a JSON value that is no object (TypeError while validating)
\*   object      a JSON object; status and reason may be absent
JudgeResponses ==
    [kind : {"raises", "not_json", "json_scalar"}, status : {"ABSENT"}, reason : {"ABSENT"}]
    \cup
    [kind : {"object"}, status : {"EXECUTED", "BLOCKED", "SAFE", "ABSENT"},
     reason : {"because", "ABSENT"}]

\* Python's None, and a local variable that no assignment has bound yet.
None == "None"
Unbound == "UNBOUND"

NoResponse == [kind |-> "none", status |-> "ABSENT", reason |-> "ABSENT"]
NoAiResult == [status |-> Unbound, reason |-> Unbound]
NoResult ==
    [status |-> None, layer |-> None, score |-> 0, reason |-> <<>>,
     matched_rule |-> None]

(***************************************************************************)
(* The state: the rules table, the judge's credential, and one evaluation  *)
(* of process_command (its position and its local variables).              *)
(***************************************************************************)
VARIABLES
    rules_table,      \* supabase table "rules", rows in created_at order
    GEMINI_API_KEY,   \* whether the judge's credential is configured
    pc,               \* position of the evaluation
    command_text,     \* the argument of process_command
    fetch,            \* how the Layer 1 fetch ended: "none", "ok", "error"
    rules,            \* local: response.data of the Layer 1 fetch
    tested,           \* number of rules the Layer 1 loop has visited
    l1_decision,      \* local
    matched_rule_id,  \* local
    l2_decision,      \* local
    score,            \* local
    l2_reason,        \* local
    judge_calls,      \* number of calls of judge_command
    judge_response,   \* what the judge's backend answered
    ai_result,        \* local: the value judge_command returned
    result,           \* the dict process_command returned
    raised,           \* the exception process_command propagated
    visited           \* the layers entered, in order

\* The state around the evaluation: the callers of CommandGuard.analyze and
\* ConflictDetector.check_overlap, the admin's rule requests, and
\* execute_command with the tables it writes.
VARIABLES
    analysis,           \* the values two calls of CommandGuard.analyze returned
    new_pattern_str,    \* check_overlap's first argument
    existing_patterns,  \* check_overlap's second argument
    overlap,            \* the value check_overlap returned
    rule_request,       \* the last create/update/delete rule request and its response
    admin_requests,     \* number of rule requests served
    exec_pc,            \* position of execute_command
    user_credits,       \* user.credits, read when the request was authenticated
    credits,            \* app_users.credits of the requesting user
    command_logs,       \* supabase table "command_logs"
    inflight,           \* rule requests between their conflict check and their write
    requests,           \* concurrent execute_command requests of one user
    ledger              \* the credits at the start and the admin's credit updates

\* The state of the concurrent requests to the rule and command endpoints.
concurrent_vars == <<inflight, requests, ledger>>

outside_vars ==
    <<analysis, new_pattern_str, existing_patterns, overlap, rule_request,
      admin_requests, exec_pc, user_credits, inflight, requests, ledger>>

evaluation_vars ==
    <<pc, command_text, fetch, rules, tested, l1_decision, matched_rule_id,
      l2_decision, score, l2_reason, judge_calls, judge_response, ai_result,
      result, raised, visited>>

vars ==
    <<rules_table, GEMINI_API_KEY, pc, command_text, fetch, rules, tested,
      l1_decision, matched_rule_id, l2_decision, score, l2_reason, judge_calls,
      judge_response, ai_result, result, raised, visited, analysis,
      new_pattern_str, existing_patterns, overlap, rule_request, admin_requests,
      exec_pc, user_credits, credits, command_logs, inflight, requests, ledger>>

NoAnalysis ==
    [done |-> FALSE, text |-> <<>>, decision |-> None, score |-> 0, reason |-> <<>>]

NoOverlap ==
    [done |-> FALSE, has_conflict |-> FALSE, reason |-> None, rule_id |-> None,
     examined |-> 0]

NoRequest ==
    [op |-> "none", status |-> "none", rule_id |-> None, pattern |-> <<>>,
     checked |-> FALSE, against |-> <<>>, has_conflict |-> FALSE]

\* No process_command evaluation has started.
EvaluationIdle ==
    /\ pc = "START"
    /\ command_text = <<>>
    /\ fetch = "none"
    /\ rules = <<>>
    /\ tested = 0
    /\ l1_decision = Unbound
    /\ matched_rule_id = Unbound
    /\ l2_decision = Unbound
    /\ score = 0
    /\ l2_reason = <<>>
    /\ judge_calls = 0
    /\ judge_response = NoResponse
    /\ ai_result = NoAiResult
    /\ result = NoResult
    /\ raised = None
    /\ visited = <<>>

GuardIdle == analysis = [r \in {"first", "second"} |-> NoAnalysis]

ConflictIdle ==
    /\ new_pattern_str = <<>>
    /\ existing_patterns = <<>>
    /\ overlap = NoOverlap

AdminIdle ==
    /\ rule_request = NoRequest
    /\ admin_requests = 0

ExecIdle ==
    /\ exec_pc = "IDLE"
    /\ user_credits = 0
    /\ credits = 0
    /\ command_logs = <<>>

NoLedger == [initial |-> 0, admin_updates |-> 0]

ConcurrentIdle ==
    /\ inflight = <<>>
    /\ requests = <<>>
    /\ ledger = NoLedger

Init ==
    /\ rules_table \in RuleTables
    /\ GEMINI_API_KEY \in BOOLEAN
    /\ EvaluationIdle
    /\ GuardIdle
    /\ ConflictIdle
    /\ AdminIdle
    /\ ExecIdle
    /\ ConcurrentIdle

(***************************************************************************)
(* Layer 1 of process_command: the scan of the active rules.               *)
(***************************************************************************)
\* supabase.table("rules").select("*").eq("is_active", True).order("created_at")
FetchActiveRules(table) == SelectSeq(table, LAMBDA r : r.is_active)

\* OnMatch with the AUTO_REJECT branch lost: a matching REJECT rule no longer
\* returns, the scan goes on.
OnMatch_RejectFallsThrough(action) ==
    IF action = "AUTO_ACCEPT" THEN "BREAK" ELSE "CONTINUE"

\* OnMatch with the `break` of the AUTO_ACCEPT branch lost: a later matching
\* REJECT rule still blocks ("any REJECT wins").
OnMatch_AcceptKeepsScanning(action) ==
    IF action = "AUTO_REJECT" THEN "RETURN" ELSE "CONTINUE"

\* What the loop body does on a rule whose pattern matched:
\* return the BLOCKED dict, break out of the loop, or go on with the next rule.
OnMatch(action) ==
    IF action = "AUTO_REJECT" THEN "RETURN"
    ELSE IF action = "AUTO_ACCEPT" THEN "BREAK"
    ELSE "CONTINUE"

\* The dict returned for a matching AUTO_REJECT rule.
RejectResult(rule) ==
    [status |-> "BLOCKED", layer |-> "1_RULES", score |-> 0,
     reason |-> <<"Admin Explicitly Forbidden", rule.description>>,
     matched_rule |-> rule.id]

\* OnRegexError with the inner handler lost: re.error reaches the outer
\* `except Exception`, which ends the scan with NO_MATCH.
OnRegexError_AbortsScan == "ABORT"

\* `except re.error as regex_err: ...; continue`
OnRegexError == "CONTINUE"

\* `for rule in rules:` from rule i on, with the locals l1 (l1_decision) and
\* matched (matched_rule_id); n counts the rules visited.
RECURSIVE ScanRules(_, _, _, _, _)
ScanRules(rs, i, text, l1, matched) ==
    IF i > Len(rs)
    THEN [returned |-> FALSE, l1_decision |-> l1, matched_rule_id |-> matched,
          tested |-> Len(rs), result |-> NoResult]
    ELSE LET rule == rs[i] IN
         IF ~ReCompiles(rule.pattern)
         THEN IF OnRegexError = "CONTINUE"
              THEN ScanRules(rs, i + 1, text, l1, matched)
              ELSE [returned |-> FALSE, l1_decision |-> "NO_MATCH",
                    matched_rule_id |-> matched, tested |-> i, result |-> NoResult]
         ELSE IF ~ReSearch(rule.pattern, text)
         THEN ScanRules(rs, i + 1, text, l1, matched)
         ELSE LET todo == OnMatch(rule.action)
                  l1b  == IF rule.action = "AUTO_ACCEPT" THEN "AUTO_ACCEPT" ELSE l1
              IN  IF todo = "RETURN"
                  THEN [returned |-> TRUE, l1_decision |-> l1,
                        matched_rule_id |-> rule.id, tested |-> i,
                        result |-> RejectResult(rule)]
                  ELSE IF todo = "BREAK"
                  THEN [returned |-> FALSE, l1_decision |-> l1b,
                        matched_rule_id |-> rule.id, tested |-> i,
                        result |-> NoResult]
                  ELSE ScanRules(rs, i + 1, text, l1b, rule.id)

(***************************************************************************)
(* Layer 2: the decision tree on (l1_decision, score).                     *)
(***************************************************************************)
\* DecisionTree trusting an ACCEPT rule below the critical range.
DecisionTree_TrustsAccept(l1, sc) ==
    IF sc >= 100
    THEN IF l1 = "AUTO_ACCEPT" THEN "ESCALATE" ELSE "BLOCK"
    ELSE IF sc = 0 \/ l1 = "AUTO_ACCEPT" THEN "EXECUTE"
    ELSE "ESCALATE"

\* DecisionTree sending every critical score to the judge.
DecisionTree_EscalatesCritical(l1, sc) ==
    IF sc = 0 THEN "EXECUTE" ELSE "ESCALATE"

DecisionTree(l1, sc) ==
    IF sc >= 100
    THEN IF l1 = "AUTO_ACCEPT" THEN "ESCALATE" ELSE "BLOCK"
    ELSE IF sc = 0 THEN "EXECUTE"
    ELSE "ESCALATE"

GuardBlockResult(sc, reason, matched) ==
    [status |-> "BLOCKED", layer |-> "2_GUARD", score |-> sc,
     reason |-> <<"Heuristic Risk too high", sc, reason>>,
     matched_rule |-> matched]

GuardSafeResult(sc, matched) ==
    [status |-> "EXECUTED", layer |-> "2_GUARD", score |-> sc,
     reason |-> <<"Verified Safe">>, matched_rule |-> matched]

(***************************************************************************)
(* Layer 3: judge_command and the dict built from its result.              *)
(***************************************************************************)
\* judge_command without a credential
JudgeUnavailable ==
    [status |-> "BLOCKED", reason |-> "AI Judge unavailable (Missing API Key)"]

\* judge_command with a credential, on the backend's response
judge_command(resp) ==
    IF resp.kind \in {"raises", "not_json", "json_scalar"}
    THEN [status |-> "BLOCKED", reason |-> "AI Judge failed"]
    ELSE IF resp.status = "ABSENT" \/ resp.status \notin {"EXECUTED", "BLOCKED"}
    THEN [status |-> "BLOCKED", reason |-> "AI returned invalid format"]
    ELSE [status |-> resp.status, reason |-> resp.reason]

\* Layer3Result reporting score 0, as the Layer 1 dict does.
Layer3Result_DropsScore(ai, sc, matched) ==
    [status |-> ai.status, layer |-> "3_AI", score |-> 0,
     reason |-> <<"AI Verdict", ai.reason, sc>>, matched_rule |-> matched]

Layer3Result(ai, sc, matched) ==
    [status |-> ai.status, layer |-> "3_AI", score |-> sc,
     reason |-> <<"AI Verdict", ai.reason, sc>>, matched_rule |-> matched]

(***************************************************************************)
(* The actions.                                                            *)
(***************************************************************************)
\* `return d` where d reads the local matched_rule_id: an unbound local raises.
Return(d) ==
    IF matched_rule_id = Unbound
    THEN /\ pc' = "RAISED"
         /\ raised' = "UnboundLocalError"
         /\ result' = result
    ELSE /\ pc' = "RETURNED"
         /\ result' = d
         /\ raised' = raised

\* ProcessCommandFrame with the credit taken inside process_command.
ProcessCommandFrame_Deducts ==
    /\ credits' = credits - 1
    /\ UNCHANGED command_logs

\* process_command writes no table: its one store call is the select of
\* Layer 1.  Its steps leave the users' credits and the command log alone.
ProcessCommandFrame == UNCHANGED <<credits, command_logs>>

\* process_command(command_text) is entered.
Call(cmd) ==
    /\ pc = "START"
    /\ pc' = "LAYER1"
    /\ command_text' = cmd
    /\ visited' = Append(visited, "LAYER1")
    /\ UNCHANGED <<rules_table, GEMINI_API_KEY, fetch, rules, tested, l1_decision,
                   matched_rule_id, l2_decision, score, l2_reason, judge_calls,
                   judge_response, ai_result, result, raised>>

\* process_command(command_text) is called.
Submit(cmd) ==
    /\ Call(cmd)
    /\ ProcessCommandFrame
    /\ UNCHANGED outside_vars

\* Layer 1, the fetch succeeds: the scan either returns the BLOCKED dict or
\* leaves l1_decision and matched_rule_id for Layer 2.
Layer1Fetched ==
    /\ pc = "LAYER1"
    /\ LET rs   == FetchActiveRules(rules_table)
           scan == ScanRules(rs, 1, command_text, "NO_MATCH", None)
       IN  /\ fetch' = "ok"
           /\ rules' = rs
           /\ tested' = scan.tested
           /\ l1_decision' = scan.l1_decision
           /\ matched_rule_id' = scan.matched_rule_id
           /\ IF scan.returned
              THEN /\ pc' = "RETURNED"
                   /\ result' = scan.result
                   /\ visited' = visited
              ELSE /\ pc' = "LAYER2"
                   /\ result' = result
                   /\ visited' = Append(visited, "LAYER2")
    /\ UNCHANGED <<rules_table, GEMINI_API_KEY, command_text, l2_decision, score,
                   l2_reason, judge_calls, judge_response, ai_result, raised>>
    /\ ProcessCommandFrame
    /\ UNCHANGED outside_vars

\* Layer 1, the fetch raises (or response.data is no list): the handler sets
\* l1_decision only; matched_rule_id was never assigned.
Layer1FetchFails ==
    /\ pc = "LAYER1"
    /\ fetch' = "error"
    /\ l1_decision' = "NO_MATCH"
    /\ pc' = "LAYER2"
    /\ visited' = Append(visited, "LAYER2")
    /\ UNCHANGED <<rules_table, GEMINI_API_KEY, command_text, rules, tested,
                   matched_rule_id, l2_decision, score, l2_reason, judge_calls,
                   judge_response, ai_result, result, raised>>
    /\ ProcessCommandFrame
    /\ UNCHANGED outside_vars

\* Layer 2: CommandGuard.analyze and the decision tree.
Layer2 ==
    /\ pc = "LAYER2"
    /\ LET g    == analyze(command_text)
           todo == DecisionTree(l1_decision, g.score)
       IN  /\ l2_decision' = g.decision
           /\ score' = g.score
           /\ l2_reason' = g.reason
           /\ IF todo = "BLOCK"
              THEN /\ Return(GuardBlockResult(g.score, g.reason, matched_rule_id))
                   /\ visited' = visited
              ELSE IF todo = "EXECUTE"
              THEN /\ Return(GuardSafeResult(g.score, matched_rule_id))
                   /\ visited' = visited
              ELSE /\ pc' = "LAYER3"
                   /\ visited' = Append(visited, "LAYER3")
                   /\ UNCHANGED <<result, raised>>
    /\ UNCHANGED <<rules_table, GEMINI_API_KEY, command_text, fetch, rules, tested,
                   l1_decision, matched_rule_id, judge_calls, judge_response,
                   ai_result>>
    /\ ProcessCommandFrame
    /\ UNCHANGED outside_vars

\* The statements after `await judge_command(...)`: the log line reads
\* ai_result['reason'] (KeyError when the judge's object has none), then the
\* dict is built.
AfterJudge(ai) ==
    IF ai.reason = "ABSENT"
    THEN /\ pc' = "RAISED"
         /\ raised' = "KeyError"
         /\ result' = result
    ELSE Return(Layer3Result(ai, score, matched_rule_id))

\* Layer 3 without a credential: judge_command returns at once.
Layer3NoKey ==
    /\ pc = "LAYER3"
    /\ ~GEMINI_API_KEY
    /\ judge_calls' = judge_calls + 1
    /\ ai_result' = JudgeUnavailable
    /\ AfterJudge(JudgeUnavailable)
    /\ UNCHANGED <<rules_table, GEMINI_API_KEY, command_text, fetch, rules, tested,
                   l1_decision, matched_rule_id, l2_decision, score, l2_reason,
                   judge_response, visited>>
    /\ ProcessCommandFrame
    /\ UNCHANGED outside_vars

\* Layer 3 with a credential: judge_command suspends on the backend call.
Layer3Call ==
    /\ pc = "LAYER3"
    /\ GEMINI_API_KEY
    /\ judge_calls' = judge_calls + 1
    /\ pc' = "JUDGE"
    /\ UNCHANGED <<rules_table, GEMINI_API_KEY, command_text, fetch, rules, tested,
                   l1_decision, matched_rule_id, l2_decision, score, l2_reason,
                   judge_response, ai_result, result, raised, visited>>
    /\ ProcessCommandFrame
    /\ UNCHANGED outside_vars

\* The backend answers (or raises); judge_command returns and
\* process_command finishes.
JudgeReturns(resp) ==
    /\ pc = "JUDGE"
    /\ judge_response' = resp
    /\ ai_result' = judge_command(resp)
    /\ AfterJudge(judge_command(resp))
    /\ UNCHANGED <<rules_table, GEMINI_API_KEY, command_text, fetch, rules, tested,
                   l1_decision, matched_rule_id, l2_decision, score, l2_reason,
                   judge_calls, visited>>
    /\ ProcessCommandFrame
    /\ UNCHANGED outside_vars

Next ==
    \/ \E cmd \in Commands : Submit(cmd)
    \/ Layer1Fetched
    \/ Layer1FetchFails
    \/ Layer2
    \/ Layer3NoKey
    \/ Layer3Call
    \/ \E resp \in JudgeResponses : JudgeReturns(resp)

Spec == Init /\ [][Next]_vars

\* The steps process_command takes by itself: its code between two
\* suspension points runs to the next one.  The backend's answer
\* (JudgeReturns) is not among them: `await asyncio.to_thread(
\* model.generate_content, prompt)` passes no timeout and is not wrapped in
\* one, so nothing in the program ends the wait.
ProgramStep ==
    \/ Layer1Fetched
    \/ Layer1FetchFails
    \/ Layer2
    \/ Layer3NoKey
    \/ Layer3Call

(***************************************************************************)
(* CommandGuard.analyze on its own: two calls, on texts put together from  *)
(* a binary, up to MaxArgs arguments and, for the malformed ones, an       *)
(* unterminated quote or a trailing backslash.  analyze has no suspension  *)
(* point, so a call is one step; other calls happen before, between and    *)
(* after the two.                                                          *)
(***************************************************************************)
GuardBinaries ==
    {<<"r", "m">>, <<"l", "s">>, <<"d", "d">>, <<"f", "o", "o">>}

GuardArgs ==
    {<<"-", "r", "f">>, <<"-", "r">>, <<"-", "f">>, <<"-", "R">>,
     <<"/", "e", "t", "c">>, <<"/", "t", "m", "p", "/", "x">>, <<"|">>}

OpenSuffixes == {<<" ", "\"", "x">>, <<" ", "\\">>}

RECURSIVE JoinWords(_, _)
JoinWords(words, i) ==
    IF i > Len(words) THEN <<>>
    ELSE (IF i > 1 THEN <<" ">> ELSE <<>>) \o words[i] \o JoinWords(words, i + 1)

WellFormedTexts ==
    {JoinWords(<<b>> \o args, 1) :
        b \in GuardBinaries,
        args \in UNION {[1..n -> GuardArgs] : n \in 0..MaxArgs}}

MalformedTexts == {t \o x : t \in WellFormedTexts, x \in OpenSuffixes}

GuardTexts == WellFormedTexts \cup MalformedTexts \cup {<<>>, <<" ">>}

\* Texts of the calls made by other evaluations in between.
InterleavedTexts == {Cmd_rm_rf_etc, Cmd_open_quote, Cmd_ls_la}

\* One call of CommandGuard.analyze(text); r names the caller.
Analyze(r, text) ==
    /\ ~analysis[r].done
    /\ LET g == analyze(text)
       IN  analysis' =
               [analysis EXCEPT ![r] =
                   [done |-> TRUE, text |-> text, decision |-> g.decision,
                    score |-> g.score, reason |-> g.reason]]
    /\ UNCHANGED <<rules_table, GEMINI_API_KEY, evaluation_vars, new_pattern_str,
                   existing_patterns, overlap, rule_request, admin_requests,
                   exec_pc, user_credits, credits, command_logs>>
    /\ UNCHANGED concurrent_vars

AnalyzeFirst == \E text \in GuardTexts : Analyze("first", text)

AnalyzeSecond ==
    \E text \in InterleavedTexts \cup
                (IF analysis["first"].done THEN {analysis["first"].text} ELSE {}) :
        Analyze("second", text)

GuardInit ==
    /\ rules_table = <<>>
    /\ GEMINI_API_KEY = FALSE
    /\ EvaluationIdle
    /\ GuardIdle
    /\ ConflictIdle
    /\ AdminIdle
    /\ ExecIdle
    /\ ConcurrentIdle

GuardNext ==
    \/ AnalyzeFirst
    \/ AnalyzeSecond

GuardSpec == GuardInit /\ [][GuardNext]_vars

(***************************************************************************)
(* ConflictDetector.check_overlap and the part of the greenery library it  *)
(* uses.  greenery's parse reads a pattern as a regular expression that    *)
(* must match the WHOLE string (it is anchored at both ends; ".*" at an    *)
(* end lifts the anchor there), and it knows no anchors: "^" and "$" stand *)
(* for themselves, as ordinary characters.  An unbalanced parenthesis      *)
(* makes parse raise.  The patterns of the model are literal text with an  *)
(* optional ".*" at either end, so a parsed pattern is                     *)
(*   [pre, lit, post]: the strings x \o lit \o y, x empty unless pre,      *)
(*                     y empty unless post.                                *)
(***************************************************************************)
Wild == <<".", "*">>

EndsWith(s, p) ==
    /\ Len(p) <= Len(s)
    /\ OccursAt(s, p, Len(s) - Len(p))

Contains(s, p) == \E k \in 0..Len(s) : OccursAt(s, p, k)

\* greenery.parse(string)
parse(string) ==
    IF Has(string, "(") \/ Has(string, ")")
    THEN [ok |-> FALSE, pre |-> FALSE, lit |-> <<>>, post |-> FALSE]
    ELSE LET pre  == Len(string) >= 2 /\ SubSeq(string, 1, 2) = Wild
             rest == IF pre THEN SubSeq(string, 3, Len(string)) ELSE string
             post == Len(rest) >= 2 /\ SubSeq(rest, Len(rest) - 1, Len(rest)) = Wild
             lit  == IF post THEN SubSeq(rest, 1, Len(rest) - 2) ELSE rest
         IN  [ok |-> TRUE, pre |-> pre, lit |-> lit, post |-> post]

\* Whether the parsed pattern a accepts the string x.
Accepts(a, x) ==
    IF a.pre /\ a.post THEN Contains(x, a.lit)
    ELSE IF a.pre THEN EndsWith(x, a.lit)
    ELSE IF a.post THEN StartsWith(x, a.lit)
    ELSE x = a.lit

\* (a & b).empty(): no string is accepted by both.
IntersectionEmpty(a, b) ==
    IF ~a.pre /\ ~a.post THEN ~Accepts(b, a.lit)
    ELSE IF ~b.pre /\ ~b.post THEN ~Accepts(a, b.lit)
    ELSE IF (a.pre /\ a.post) \/ (b.pre /\ b.post) THEN FALSE
    ELSE IF a.post /\ b.post
    THEN ~(StartsWith(a.lit, b.lit) \/ StartsWith(b.lit, a.lit))
    ELSE IF a.pre /\ b.pre
    THEN ~(EndsWith(a.lit, b.lit) \/ EndsWith(b.lit, a.lit))
    ELSE FALSE

\* CandidateUnverifiable letting a candidate that cannot be parsed through.
CandidateUnverifiable_Admitted ==
    [has_conflict |-> FALSE, reason |-> None, rule_id |-> None, examined |-> 0]

\* `except Exception as e: return True, f"Invalid or too complex ..."` for
\* the new pattern.  examined counts the existing patterns looked at.
CandidateUnverifiable ==
    [has_conflict |-> TRUE,
     reason |-> "Invalid or too complex regex structure for verification",
     rule_id |-> None, examined |-> 0]

\* OnMalformedExisting ending the loop at the malformed rule: the patterns
\* after it are never compared.
OnMalformedExisting_StopsLoop == "BREAK"

\* `except Exception as e: logger.warning(...); continue` for an existing rule
OnMalformedExisting == "CONTINUE"

\* `for rule in existing_patterns:` from the i-th rule on
RECURSIVE OverlapLoop(_, _, _)
OverlapLoop(new_regex, existing, i) ==
    IF i > Len(existing)
    THEN [has_conflict |-> FALSE, reason |-> None, rule_id |-> None,
          examined |-> Len(existing)]
    ELSE LET existing_regex == parse(existing[i].pattern)
         IN  IF ~existing_regex.ok
             THEN IF OnMalformedExisting = "CONTINUE"
                  THEN OverlapLoop(new_regex, existing, i + 1)
                  ELSE [has_conflict |-> FALSE, reason |-> None, rule_id |-> None,
                        examined |-> i]
             ELSE IF ~IntersectionEmpty(new_regex, existing_regex)
             THEN [has_conflict |-> TRUE, reason |-> "Conflict detected with Rule",
                   rule_id |-> existing[i].id, examined |-> i]
             ELSE OverlapLoop(new_regex, existing, i + 1)

\* ConflictDetector.check_overlap(new_pattern_str, existing_patterns)
check_overlap(new_pattern, existing) ==
    LET new_regex == parse(new_pattern)
    IN  IF ~new_regex.ok THEN CandidateUnverifiable
        ELSE OverlapLoop(new_regex, existing, 1)

Pat_rm_rf_tmp == <<"^", "r", "m", " ", "-", "r", "f", " ", "/", "t", "m", "p">>
Pat_rm        == <<"r", "m">>
Pat_any_rm    == <<".", "*", "r", "m", ".", "*">>
Pat_rm_any    == <<"r", "m", ".", "*">>

ConflictPatterns ==
    {Pat_rm_rf, Pat_rm_rf_tmp, Pat_rm, Pat_reboot, Pat_any_rm, Pat_rm_any, Pat_bad}

\* The rows `select("id, pattern")` returns.
ExistingLists ==
    {[i \in 1..Len(ps) |-> [id |-> RuleId(i), pattern |-> ps[i]]] :
        ps \in UNION {[1..n -> ConflictPatterns] : n \in 0..MaxExisting}}

\* One call of check_overlap on the arguments drawn.
CheckOverlap ==
    /\ ~overlap.done
    /\ LET c == check_overlap(new_pattern_str, existing_patterns)
       IN  overlap' = [done |-> TRUE, has_conflict |-> c.has_conflict,
                       reason |-> c.reason, rule_id |-> c.rule_id,
                       examined |-> c.examined]
    /\ UNCHANGED <<rules_table, GEMINI_API_KEY, evaluation_vars, analysis,
                   new_pattern_str, existing_patterns, rule_request,
                   admin_requests, exec_pc, user_credits, credits, command_logs>>
    /\ UNCHANGED concurrent_vars

ConflictInit ==
    /\ rules_table = <<>>
    /\ GEMINI_API_KEY = FALSE
    /\ EvaluationIdle
    /\ GuardIdle
    /\ new_pattern_str \in ConflictPatterns
    /\ existing_patterns \in ExistingLists
    /\ overlap = NoOverlap
    /\ AdminIdle
    /\ ExecIdle
    /\ ConcurrentIdle

ConflictNext == CheckOverlap

ConflictSpec == ConflictInit /\ [][ConflictNext]_vars

(***************************************************************************)
(* server.py: the admin's rule requests.  The handlers await nothing, so   *)
(* one request is one step.  Each store call may fail (raise).             *)
(***************************************************************************)
RulePatterns == {Pat_rm_rf, Pat_rm_rf_tmp, Pat_reboot, Pat_any_rm, Pat_bad}

RuleIds == {RuleId(i) : i \in 1..MaxRequests}

\* IdPattern returning the first row only (a fetch cut short).
IdPattern_FirstRowOnly(rows) ==
    [i \in 1..(IF Len(rows) > 0 THEN 1 ELSE 0) |->
        [id |-> rows[i].id, pattern |-> rows[i].pattern]]

\* select("id, pattern") of the rows
IdPattern(rows) ==
    [i \in 1..Len(rows) |-> [id |-> rows[i].id, pattern |-> rows[i].pattern]]

\* .neq("id", rule_id)
OtherRows(rows, rule_id) == SelectSeq(rows, LAMBDA r : r.id # rule_id)

HasRow(rows, rule_id) == \E i \in 1..Len(rows) : rows[i].id = rule_id

\* ConflictGate letting a conflicting candidate through.
ConflictGate_Open(has_conflict) == "PASS"

\* `if has_conflict: raise HTTPException(status_code=409, ...)`
ConflictGate(has_conflict) == IF has_conflict THEN "409" ELSE "PASS"

\* create_rule and update_rule before they write: re.compile, the fetch of
\* the existing rules, check_overlap.  existing is what the fetch returns.
Vetting(pattern, existing, fetch_ok) ==
    IF ~ReCompiles(pattern)
    THEN [status |-> "422", checked |-> FALSE, against |-> <<>>,
          has_conflict |-> FALSE]
    ELSE IF ~fetch_ok
    THEN [status |-> "400", checked |-> FALSE, against |-> <<>>,
          has_conflict |-> FALSE]
    ELSE LET c == check_overlap(pattern, existing)
         IN  [status |-> ConflictGate(c.has_conflict), checked |-> TRUE,
              against |-> existing, has_conflict |-> c.has_conflict]

RuleFrame ==
    UNCHANGED <<GEMINI_API_KEY, evaluation_vars, analysis, new_pattern_str,
                existing_patterns, overlap, exec_pc, user_credits, credits,
                command_logs, requests, ledger>>

\* POST /rules
CreateRule(pattern, action, fetch_ok, insert_ok) ==
    /\ admin_requests < MaxRequests
    /\ admin_requests' = admin_requests + 1
    /\ LET v      == Vetting(pattern, IdPattern(rules_table), fetch_ok)
           stored == v.status = "PASS" /\ insert_ok
           new_id == RuleId(admin_requests + 1)
       IN  /\ rules_table' =
                 IF stored
                 THEN Append(rules_table,
                             [id |-> new_id, pattern |-> pattern, action |-> action,
                              is_active |-> TRUE, description |-> "desc"])
                 ELSE rules_table
           /\ rule_request' =
                 [op |-> "create",
                  status |-> IF v.status # "PASS" THEN v.status
                             ELSE IF insert_ok THEN "201" ELSE "500",
                  rule_id |-> IF stored THEN new_id ELSE None,
                  pattern |-> pattern, checked |-> v.checked,
                  against |-> v.against, has_conflict |-> v.has_conflict]
    /\ RuleFrame
    /\ UNCHANGED inflight

\* PUT /rules/{rule_id}
UpdateRule(rule_id, pattern, action, fetch_ok, update_ok) ==
    /\ admin_requests < MaxRequests
    /\ admin_requests' = admin_requests + 1
    /\ LET v      == Vetting(pattern, IdPattern(OtherRows(rules_table, rule_id)),
                             fetch_ok)
           stored == v.status = "PASS" /\ update_ok /\ HasRow(rules_table, rule_id)
       IN  /\ rules_table' =
                 IF stored
                 THEN [i \in 1..Len(rules_table) |->
                          IF rules_table[i].id = rule_id
                          THEN [id |-> rule_id, pattern |-> pattern,
                                action |-> action, is_active |-> TRUE,
                                description |-> "desc"]
                          ELSE rules_table[i]]
                 ELSE rules_table
           /\ rule_request' =
                 [op |-> "update",
                  status |-> IF v.status # "PASS" THEN v.status
                             ELSE IF ~update_ok THEN "500"
                             ELSE IF stored THEN "200" ELSE "404",
                  rule_id |-> rule_id, pattern |-> pattern,
                  checked |-> v.checked, against |-> v.against,
                  has_conflict |-> v.has_conflict]
    /\ RuleFrame
    /\ UNCHANGED inflight

\* DELETE /rules/{rule_id}
DeleteRule(rule_id, delete_ok) ==
    /\ admin_requests < MaxRequests
    /\ admin_requests' = admin_requests + 1
    /\ LET deleted == delete_ok /\ HasRow(rules_table, rule_id)
       IN  /\ rules_table' =
                 IF deleted THEN OtherRows(rules_table, rule_id) ELSE rules_table
           /\ rule_request' =
                 [op |-> "delete",
                  status |-> IF ~delete_ok THEN "500"
                             ELSE IF deleted THEN "200" ELSE "404",
                  rule_id |-> rule_id, pattern |-> <<>>, checked |-> FALSE,
                  against |-> <<>>, has_conflict |-> FALSE]
    /\ RuleFrame
    /\ UNCHANGED inflight

RulesInit ==
    /\ rules_table = <<>>
    /\ GEMINI_API_KEY = FALSE
    /\ EvaluationIdle
    /\ GuardIdle
    /\ ConflictIdle
    /\ AdminIdle
    /\ ExecIdle
    /\ ConcurrentIdle

RulesNext ==
    \/ \E pattern \in RulePatterns, action \in Actions, fetch_ok, insert_ok \in BOOLEAN :
          CreateRule(pattern, action, fetch_ok, insert_ok)
    \/ \E rule_id \in RuleIds, pattern \in RulePatterns, action \in Actions,
          fetch_ok, update_ok \in BOOLEAN :
          UpdateRule(rule_id, pattern, action, fetch_ok, update_ok)
    \/ \E rule_id \in RuleIds, delete_ok \in BOOLEAN : DeleteRule(rule_id, delete_ok)

RulesSpec == RulesInit /\ [][RulesNext]_vars

(***************************************************************************)
(* Concurrent rule requests.  A handler is two steps here, the conflict    *)
(* check and the write, so that another request's steps can fall between   *)
(* them wherever the event loop allows it.  create_rule and update_rule    *)
(* are `async def` whose bodies hold no await: the supabase calls are      *)
(* synchronous, and the application is served by one process.              *)
(***************************************************************************)

\* A handler that yields the event loop between its check and its write.
HandlerMaySuspend_Yields == TRUE

\* Whether another request can run between a handler's check and its write.
HandlerMaySuspend == FALSE

\* The event loop takes up a request when no handler is running on it.
LoopFree == inflight = <<>> \/ HandlerMaySuspend

\* The first half of create_rule / update_rule: a rejected candidate is
\* answered at once, a passed one goes on to its write.
Vetted(op, rule_id, pattern, action, v) ==
    /\ LoopFree
    /\ admin_requests < MaxRequests
    /\ admin_requests' = admin_requests + 1
    /\ IF v.status = "PASS"
       THEN /\ inflight' = Append(inflight,
                              [op |-> op, rule_id |-> rule_id, pattern |-> pattern,
                               action |-> action, checked |-> v.checked,
                               against |-> v.against,
                               has_conflict |-> v.has_conflict])
            /\ UNCHANGED rule_request
       ELSE /\ rule_request' =
                  [op |-> op, status |-> v.status,
                   rule_id |-> IF op = "create" THEN None ELSE rule_id,
                   pattern |-> pattern, checked |-> v.checked,
                   against |-> v.against, has_conflict |-> v.has_conflict]
            /\ UNCHANGED inflight
    /\ UNCHANGED rules_table
    /\ RuleFrame

\* POST /rules up to the conflict check
VetCreate(pattern, action, fetch_ok) ==
    Vetted("create", RuleId(admin_requests + 1), pattern, action,
           Vetting(pattern, IdPattern(rules_table), fetch_ok))

\* PUT /rules/{rule_id} up to the conflict check
VetUpdate(rule_id, pattern, action, fetch_ok) ==
    Vetted("update", rule_id, pattern, action,
           Vetting(pattern, IdPattern(OtherRows(rules_table, rule_id)), fetch_ok))

\* The second half: the insert or the update, and the response.
WriteRule(k, write_ok) ==
    /\ k \in 1..Len(inflight)
    /\ LET q      == inflight[k]
           row    == [id |-> q.rule_id, pattern |-> q.pattern, action |-> q.action,
                      is_active |-> TRUE, description |-> "desc"]
           stored == /\ write_ok
                     /\ (q.op = "update" => HasRow(rules_table, q.rule_id))
       IN  /\ rules_table' =
                 IF ~stored THEN rules_table
                 ELSE IF q.op = "create" THEN Append(rules_table, row)
                 ELSE [i \in 1..Len(rules_table) |->
                          IF rules_table[i].id = q.rule_id THEN row
                          ELSE rules_table[i]]
           /\ rule_request' =
                 [op |-> q.op,
                  status |-> IF ~write_ok THEN "500"
                             ELSE IF q.op = "create" THEN "201"
                             ELSE IF stored THEN "200" ELSE "404",
                  rule_id |-> IF q.op = "create" /\ ~stored THEN None ELSE q.rule_id,
                  pattern |-> q.pattern, checked |-> q.checked,
                  against |-> q.against, has_conflict |-> q.has_conflict]
           /\ inflight' = [i \in 1..(Len(inflight) - 1) |->
                              IF i < k THEN inflight[i] ELSE inflight[i + 1]]
    /\ UNCHANGED admin_requests
    /\ RuleFrame

\* DELETE /rules/{rule_id}: one call to the store
RaceDelete(rule_id, delete_ok) ==
    /\ LoopFree
    /\ DeleteRule(rule_id, delete_ok)

RaceInit == RulesInit

RaceNext ==
    \/ \E pattern \in RulePatterns, action \in Actions, fetch_ok \in BOOLEAN :
          VetCreate(pattern, action, fetch_ok)
    \/ \E rule_id \in RuleIds, pattern \in RulePatterns, action \in Actions,
          fetch_ok \in BOOLEAN :
          VetUpdate(rule_id, pattern, action, fetch_ok)
    \/ \E k \in 1..MaxRequests, write_ok \in BOOLEAN : WriteRule(k, write_ok)
    \/ \E rule_id \in RuleIds, delete_ok \in BOOLEAN : RaceDelete(rule_id, delete_ok)

RaceSpec == RaceInit /\ [][RaceNext]_vars

(***************************************************************************)
(* server.py: execute_command, the caller of process_command.  It reads    *)
(* the user's credits when the request is authenticated, awaits            *)
(* process_command, and then writes: the credit update (only for an        *)
(* EXECUTED verdict) and the command log.                                  *)
(***************************************************************************)
\* `if user.credits <= 0: return InsufficientCreditsResponse(...)`
ExecuteInsufficient ==
    /\ exec_pc = "IDLE"
    /\ credits <= 0
    /\ user_credits' = credits
    /\ exec_pc' = "INSUFFICIENT"
    /\ UNCHANGED <<rules_table, GEMINI_API_KEY, evaluation_vars, analysis,
                   new_pattern_str, existing_patterns, overlap, rule_request,
                   admin_requests, credits, command_logs>>
    /\ UNCHANGED concurrent_vars

\* `result = await CommandOrchestrator.process_command(request.command_text)`
ExecuteBegin(cmd) ==
    /\ exec_pc = "IDLE"
    /\ credits > 0
    /\ user_credits' = credits
    /\ exec_pc' = "AWAIT"
    /\ Call(cmd)
    /\ UNCHANGED <<analysis, new_pattern_str, existing_patterns, overlap,
                   rule_request, admin_requests, credits, command_logs>>
    /\ UNCHANGED concurrent_vars

\* The row execute_command inserts into command_logs.
LogPayload ==
    [command_text |-> command_text, status |-> result.status,
     verdict_source |-> result.layer, risk_score |-> result.score]

\* process_command returned: the credit update and the log insert, each of
\* which may fail.  A failed credit update ends the request with a 500 before
\* the log is written; a failed log insert is only logged.
ExecuteFinish(update_ok, log_ok) ==
    /\ exec_pc = "AWAIT"
    /\ pc = "RETURNED"
    /\ LET deduct == result.status = "EXECUTED"
       IN  IF deduct /\ ~update_ok
           THEN /\ exec_pc' = "FAILED"
                /\ UNCHANGED <<credits, command_logs>>
           ELSE /\ exec_pc' = "RESPONDED"
                /\ credits' = IF deduct THEN user_credits - 1 ELSE credits
                /\ command_logs' = IF log_ok THEN Append(command_logs, LogPayload)
                                            ELSE command_logs
    /\ UNCHANGED <<rules_table, GEMINI_API_KEY, evaluation_vars, analysis,
                   new_pattern_str, existing_patterns, overlap, rule_request,
                   admin_requests, user_credits>>
    /\ UNCHANGED concurrent_vars

\* process_command raised: nothing catches it in execute_command.
ExecutePropagates ==
    /\ exec_pc = "AWAIT"
    /\ pc = "RAISED"
    /\ exec_pc' = "FAILED"
    /\ UNCHANGED <<rules_table, GEMINI_API_KEY, evaluation_vars, analysis,
                   new_pattern_str, existing_patterns, overlap, rule_request,
                   admin_requests, user_credits, credits, command_logs>>
    /\ UNCHANGED concurrent_vars

ExecInit ==
    /\ rules_table \in {t \in RuleTables : Len(t) <= 1}
    /\ GEMINI_API_KEY \in BOOLEAN
    /\ EvaluationIdle
    /\ GuardIdle
    /\ ConflictIdle
    /\ AdminIdle
    /\ exec_pc = "IDLE"
    /\ user_credits = 0
    /\ credits \in 0..MaxCredits
    /\ command_logs = <<>>
    /\ ConcurrentIdle

ExecNext ==
    \/ ExecuteInsufficient
    \/ \E cmd \in Commands : ExecuteBegin(cmd)
    \/ Layer1Fetched
    \/ Layer1FetchFails
    \/ Layer2
    \/ Layer3NoKey
    \/ Layer3Call
    \/ \E resp \in JudgeResponses : JudgeReturns(resp)
    \/ \E update_ok, log_ok \in BOOLEAN : ExecuteFinish(update_ok, log_ok)
    \/ ExecutePropagates

ExecSpec == ExecInit /\ [][ExecNext]_vars

(***************************************************************************)
(* Concurrent execute_command requests of one user.  get_current_user      *)
(* reads the user's row, credits included, before the handler body runs;   *)
(* the handler then awaits process_command, which yields the event loop    *)
(* only in judge_command (asyncio.to_thread).  A request whose evaluation  *)
(* ends before Layer 3 calls the Judge therefore runs from its read to its *)
(* response in one step, and one that calls the Judge is two steps with    *)
(* other requests between them.  process_command changes no state, so it   *)
(* appears here by its outcome only: a verdict of EXECUTED or BLOCKED, or  *)
(* an exception.                                                           *)
(***************************************************************************)
RequestIds == 1..MaxConcurrent

\* The statuses process_command returns.
Verdicts == {"EXECUTED", "BLOCKED"}

NoExecRequest ==
    [pc |-> "IDLE", user_credits |-> 0, status |-> "NONE", credits_used |-> 0,
     remaining_credits |-> 0, wrote |-> FALSE, written |-> 0]

\* HasNoCredits letting a user with no credit through.
HasNoCredits_OnlyNegative(user_credits_read) == user_credits_read < 0

\* `if user.credits <= 0`
HasNoCredits(user_credits_read) == user_credits_read <= 0

\* The credit update, the log insert and the response, from the value the
\* request read at authentication.
Settle(r, read, status, update_ok, log_ok) ==
    LET deduct == status = "EXECUTED"
    IN  IF deduct /\ ~update_ok
        THEN /\ requests' = [requests EXCEPT ![r] =
                    [@ EXCEPT !.pc = "DONE", !.user_credits = read,
                              !.status = "ERROR"]]
             /\ UNCHANGED <<credits, command_logs>>
        ELSE /\ credits' = IF deduct THEN read - 1 ELSE credits
             /\ command_logs' = IF log_ok
                                THEN Append(command_logs,
                                            [request |-> r, status |-> status])
                                ELSE command_logs
             /\ requests' = [requests EXCEPT ![r] =
                    [pc |-> "DONE", user_credits |-> read, status |-> status,
                     credits_used |-> IF deduct THEN 1 ELSE 0,
                     remaining_credits |-> IF deduct THEN read - 1 ELSE read,
                     wrote |-> deduct,
                     written |-> IF deduct THEN read - 1 ELSE 0]]

CreditFrame ==
    UNCHANGED <<rules_table, GEMINI_API_KEY, evaluation_vars, analysis,
                new_pattern_str, existing_patterns, overlap, rule_request,
                admin_requests, exec_pc, user_credits, inflight>>

\* `return InsufficientCreditsResponse(remaining_credits=0)`
RequestInsufficient(r) ==
    /\ requests[r].pc = "IDLE"
    /\ HasNoCredits(credits)
    /\ requests' = [requests EXCEPT ![r] =
           [@ EXCEPT !.pc = "DONE", !.user_credits = credits,
                     !.status = "INSUFFICIENT_CREDITS"]]
    /\ UNCHANGED <<credits, command_logs, ledger>>
    /\ CreditFrame

\* A request whose evaluation returns without calling the Judge.
RequestRunsThrough(r, status, update_ok, log_ok) ==
    /\ requests[r].pc = "IDLE"
    /\ ~HasNoCredits(credits)
    /\ Settle(r, credits, status, update_ok, log_ok)
    /\ UNCHANGED ledger
    /\ CreditFrame

\* A request whose evaluation reaches `await judge_command(command_text)`.
RequestSuspends(r) ==
    /\ requests[r].pc = "IDLE"
    /\ ~HasNoCredits(credits)
    /\ requests' = [requests EXCEPT ![r] =
           [@ EXCEPT !.pc = "AWAIT", !.user_credits = credits]]
    /\ UNCHANGED <<credits, command_logs, ledger>>
    /\ CreditFrame

\* The Judge answered and process_command returned its verdict.
RequestResumes(r, status, update_ok, log_ok) ==
    /\ requests[r].pc = "AWAIT"
    /\ Settle(r, requests[r].user_credits, status, update_ok, log_ok)
    /\ UNCHANGED ledger
    /\ CreditFrame

\* process_command raised: nothing catches it in execute_command.
RequestRaises(r) ==
    /\ requests[r].pc \in {"IDLE", "AWAIT"}
    /\ requests[r].pc = "IDLE" => ~HasNoCredits(credits)
    /\ requests' = [requests EXCEPT ![r] =
           [@ EXCEPT !.pc = "DONE",
                     !.user_credits = IF requests[r].pc = "IDLE" THEN credits ELSE @,
                     !.status = "ERROR"]]
    /\ UNCHANGED <<credits, command_logs, ledger>>
    /\ CreditFrame

\* PUT /users/{user_id}/credits with UpdateCredits.credits >= 0
AdminUpdatesCredits(new_credits) ==
    /\ ledger.admin_updates < MaxAdminUpdates
    /\ credits' = new_credits
    /\ ledger' = [ledger EXCEPT !.admin_updates = @ + 1]
    /\ UNCHANGED <<requests, command_logs>>
    /\ CreditFrame

CreditInit ==
    /\ rules_table = <<>>
    /\ GEMINI_API_KEY = TRUE
    /\ EvaluationIdle
    /\ GuardIdle
    /\ ConflictIdle
    /\ AdminIdle
    /\ exec_pc = "IDLE"
    /\ user_credits = 0
    /\ credits \in 0..MaxCredits
    /\ command_logs = <<>>
    /\ inflight = <<>>
    /\ requests = [r \in RequestIds |-> NoExecRequest]
    /\ ledger = [initial |-> credits, admin_updates |-> 0]

CreditNext ==
    \/ \E r \in RequestIds : RequestInsufficient(r)
    \/ \E r \in RequestIds, status \in Verdicts, update_ok, log_ok \in BOOLEAN :
          RequestRunsThrough(r, status, update_ok, log_ok)
    \/ \E r \in RequestIds : RequestSuspends(r)
    \/ \E r \in RequestIds, status \in Verdicts, update_ok, log_ok \in BOOLEAN :
          RequestResumes(r, status, update_ok, log_ok)
    \/ \E r \in RequestIds : RequestRaises(r)
    \/ \E new_credits \in 0..MaxCredits : AdminUpdatesCredits(new_credits)

CreditSpec == CreditInit /\ [][CreditNext]_vars

(***************************************************************************)
(* Notions the properties are stated with.                                 *)
(***************************************************************************)
Terminal == pc \in {"RETURNED", "RAISED"}

\* The rows of the table that are active and whose pattern matches the
\* command, by position in creation order.
MatchingIdx ==
    {i \in 1..Len(rules_table) :
        /\ rules_table[i].is_active
        /\ ReCompiles(rules_table[i].pattern)
        /\ ReSearch(rules_table[i].pattern, command_text)}

HasFirstMatch == MatchingIdx # {}

FirstMatchIdx == CHOOSE i \in MatchingIdx : \A j \in MatchingIdx : i <= j

FirstMatch == rules_table[FirstMatchIdx]

\* Number of active rows up to and including row i.
ActiveUpTo(i) == Cardinality({j \in 1..i : rules_table[j].is_active})

Layer2Ran == \E k \in 1..Len(visited) : visited[k] = "LAYER2"

Layer3Entered == \E k \in 1..Len(visited) : visited[k] = "LAYER3"

\* The judge was called and did not come back with a well-formed answer.
JudgeFailed ==
    /\ judge_calls > 0
    /\ \/ ~GEMINI_API_KEY
       \/ judge_response.kind # "object"
       \/ judge_response.status \notin {"EXECUTED", "BLOCKED"}
       \/ judge_response.reason = "ABSENT"

(***************************************************************************)
(* C1: when the first active rule, in creation order, whose pattern        *)
(* matches the command is an AUTO_REJECT rule, the evaluation of the       *)
(* fetched rules ends at Layer 1 with BLOCKED, layer 1_RULES, score 0 and  *)
(* that rule's id; the scorer never runs and the judge is never called.    *)
(***************************************************************************)
C1_RejectBlocksAtRules ==
    (fetch = "ok" /\ HasFirstMatch /\ FirstMatch.action = "AUTO_REJECT") =>
        /\ pc = "RETURNED"
        /\ result.status = "BLOCKED"
        /\ result.layer = "1_RULES"
        /\ result.score = 0
        /\ result.matched_rule = FirstMatch.id
        /\ visited = <<"LAYER1">>
        /\ l2_decision = Unbound
        /\ judge_calls = 0

\* A command the scorer rates critical is blocked by a REJECT rule at Layer 1.
C1_Witness ==
    /\ pc = "RETURNED"
    /\ result.layer = "1_RULES"
    /\ analyze(command_text).score >= 100

(***************************************************************************)
(* C2: Layer 1 is first-match-wins in creation order: the scan stops at    *)
(* the first matching rule, no later rule is visited, and an ACCEPT rule   *)
(* that matches first gives AUTO_ACCEPT with its id even when a later      *)
(* REJECT rule matches too.                                                *)
(***************************************************************************)
C2_FirstMatchWins ==
    fetch = "ok" =>
        /\ tested = (IF HasFirstMatch THEN ActiveUpTo(FirstMatchIdx) ELSE Len(rules))
        /\ matched_rule_id = (IF HasFirstMatch THEN FirstMatch.id ELSE None)
        /\ ~HasFirstMatch => l1_decision = "NO_MATCH"
        /\ (HasFirstMatch /\ FirstMatch.action = "AUTO_ACCEPT") =>
              /\ l1_decision = "AUTO_ACCEPT"
              /\ result.layer # "1_RULES"

\* An ACCEPT rule matches first and a later REJECT rule matches too.
C2_Witness ==
    /\ pc = "LAYER2"
    /\ HasFirstMatch
    /\ FirstMatch.action = "AUTO_ACCEPT"
    /\ \E j \in MatchingIdx : rules_table[j].action = "AUTO_REJECT"

(***************************************************************************)
(* C3: the judge is fail-closed: an evaluation that reached Layer 3 and    *)
(* whose judge failed (no credential, exception, no JSON, no valid status, *)
(* no reason) ends with the verdict BLOCKED, layer 3_AI; EXECUTED at       *)
(* Layer 3 needs a well-formed EXECUTED answer.  Stated for the            *)
(* evaluations whose rule fetch succeeded.                                 *)
(***************************************************************************)
C3_JudgeFailClosed ==
    /\ (Terminal /\ fetch = "ok" /\ JudgeFailed) =>
          /\ pc = "RETURNED"
          /\ result.status = "BLOCKED"
          /\ result.layer = "3_AI"
    /\ (pc = "RETURNED" /\ result.layer = "3_AI" /\ result.status = "EXECUTED") =>
          /\ GEMINI_API_KEY
          /\ judge_response.kind = "object"
          /\ judge_response.status = "EXECUTED"
          /\ judge_response.reason # "ABSENT"

(***************************************************************************)
(* C4: process_command never propagates an exception: every evaluation     *)
(* ends by returning a verdict whose status is EXECUTED or BLOCKED.        *)
(***************************************************************************)
C4_AlwaysVerdict ==
    /\ pc # "RAISED"
    /\ pc = "RETURNED" => result.status \in {"EXECUTED", "BLOCKED"}

(***************************************************************************)
(* C5: when the rule fetch fails, the evaluation goes on as if no rule     *)
(* matched and returns the verdict of the decision tree for NoMatch and    *)
(* the command's score, with no matched rule.                              *)
(***************************************************************************)
C5_FetchFailureIsNoMatch ==
    (Terminal /\ fetch = "error") =>
        /\ pc = "RETURNED"
        /\ l1_decision = "NO_MATCH"
        /\ result.matched_rule = None
        /\ result.score = score
        /\ score = 0 => (result.status = "EXECUTED" /\ result.layer = "2_GUARD")
        /\ score >= 100 => (result.status = "BLOCKED" /\ result.layer = "2_GUARD")
        /\ score \in 1..99 => result.layer = "3_AI"

(***************************************************************************)
(* C6: Layer 2 reached without an ACCEPT match and score >= 100: the       *)
(* evaluation ends BLOCKED, layer 2_GUARD, with the Layer 2 score, and the *)
(* judge is never called.                                                  *)
(***************************************************************************)
C6_CriticalWithoutAcceptBlocks ==
    (Terminal /\ Layer2Ran /\ l1_decision # "AUTO_ACCEPT" /\ score >= 100) =>
        /\ pc = "RETURNED"
        /\ result.status = "BLOCKED"
        /\ result.layer = "2_GUARD"
        /\ result.score = score
        /\ judge_calls = 0

(***************************************************************************)
(* C7: an ACCEPT match with score >= 100 is never decided locally: the     *)
(* judge is called and the final verdict has layer 3_AI; when the judge    *)
(* fails the verdict is BLOCKED, layer 3_AI.                               *)
(***************************************************************************)
C7_AcceptCriticalGoesToJudge ==
    (Terminal /\ l1_decision = "AUTO_ACCEPT" /\ score >= 100) =>
        /\ judge_calls = 1
        /\ pc = "RETURNED"
        /\ result.layer = "3_AI"
        /\ JudgeFailed => result.status = "BLOCKED"

(***************************************************************************)
(* C8: Layer 2 reached and score 0: the evaluation ends EXECUTED, layer    *)
(* 2_GUARD, score 0, whatever Layer 1 found, and the judge is never        *)
(* called.                                                                 *)
(***************************************************************************)
C8_SafeScoreExecutes ==
    (Terminal /\ Layer2Ran /\ score = 0) =>
        /\ pc = "RETURNED"
        /\ result.status = "EXECUTED"
        /\ result.layer = "2_GUARD"
        /\ result.score = 0
        /\ judge_calls = 0

(***************************************************************************)
(* C9: Layer 2 run with a score in 1..99: the evaluation goes on to        *)
(* Layer 3 whatever Layer 1 found (AUTO_ACCEPT or NO_MATCH), it cannot end *)
(* without the judge having been called, and no verdict of layer 2_GUARD   *)
(* is produced.                                                            *)
(***************************************************************************)
C9_AmbiguousEscalates ==
    (Layer2Ran /\ pc # "LAYER2" /\ score \in 1..99) =>
        /\ Layer3Entered
        /\ pc \in {"LAYER3", "JUDGE", "RETURNED", "RAISED"}
        /\ Terminal => judge_calls = 1
        /\ pc = "RETURNED" => result.layer = "3_AI"

\* An ACCEPT match with an ambiguous score got its verdict from the judge.
C9_Witness ==
    /\ pc = "RETURNED"
    /\ l1_decision = "AUTO_ACCEPT"
    /\ score \in 1..99
    /\ judge_calls = 1
    /\ result.layer = "3_AI"

(***************************************************************************)
(* C10: every verdict Layer 3 produces has the status judge_command        *)
(* returned, layer 3_AI, the Layer 2 score of the same command, and as     *)
(* matched_rule the id of the ACCEPT rule matched at Layer 1, or none.     *)
(***************************************************************************)
C10_Layer3Verdict ==
    (pc = "RETURNED" /\ result.layer = "3_AI") =>
        /\ result.status = ai_result.status
        /\ result.status \in {"EXECUTED", "BLOCKED"}
        /\ result.score = analyze(command_text).score
        /\ result.matched_rule =
              (IF HasFirstMatch /\ FirstMatch.action = "AUTO_ACCEPT"
               THEN FirstMatch.id ELSE None)

\* The judge let an accepted, critical command run.
C10_Witness ==
    /\ pc = "RETURNED"
    /\ result.layer = "3_AI"
    /\ result.status = "EXECUTED"
    /\ result.matched_rule # None
    /\ result.score >= 100

(***************************************************************************)
(* C11: in one evaluation the judge is called at most once, only after     *)
(* Layer 1 and Layer 2 have run, and exactly when the score is in 1..99 or *)
(* the score is >= 100 and an ACCEPT rule matched; the layers are entered  *)
(* in the order LAYER1, LAYER2, LAYER3 and nothing follows a returned      *)
(* verdict.                                                                *)
(***************************************************************************)
LayerOrder == <<"LAYER1", "LAYER2", "LAYER3">>

TreeEscalates ==
    \/ score \in 1..99
    \/ (score >= 100 /\ l1_decision = "AUTO_ACCEPT")

C11_State ==
    /\ judge_calls \in {0, 1}
    /\ Len(visited) <= Len(LayerOrder)
    /\ \A k \in 1..Len(visited) : visited[k] = LayerOrder[k]
    /\ judge_calls = 1 =>
          /\ visited = LayerOrder
          /\ l1_decision \in {"NO_MATCH", "AUTO_ACCEPT"}
          /\ l2_decision # Unbound
          /\ TreeEscalates
    /\ (Terminal /\ Layer2Ran /\ TreeEscalates) => judge_calls = 1
    /\ (Terminal /\ ~Layer2Ran) => result.layer = "1_RULES"

C11_Step ==
    /\ ~Terminal
    /\ judge_calls' # judge_calls => pc = "LAYER3"

C11_JudgeOnlyWhenTreeSays == [](C11_State) /\ [][C11_Step]_vars

\* The judge broke the tie between an ACCEPT rule and a critical score.
C11_Witness ==
    /\ Terminal
    /\ judge_calls = 1
    /\ visited = LayerOrder
    /\ l1_decision = "AUTO_ACCEPT"
    /\ score >= 100

(***************************************************************************)
(* C12: every evaluation that reaches Layer 3 ends, even when the judge's  *)
(* backend never answers: the wait for the judge is bounded, so an         *)
(* evaluation in Layer 3 that has not ended can always take its next step  *)
(* by itself (on a timeout: the verdict BLOCKED, layer 3_AI).              *)
(***************************************************************************)
C12_Layer3Terminates == Layer3Entered => (Terminal \/ ENABLED ProgramStep)

(***************************************************************************)
(* C13: when shell tokenization of the command text fails (an unterminated *)
(* quote or escape), CommandGuard.analyze returns decision BLOCK with      *)
(* score exactly 100 and the malformed-syntax reason alone: the +30 for    *)
(* piping/redirection is not in it, nothing else is scored, and the text   *)
(* is never taken for an empty token list with score 0.                    *)
(***************************************************************************)
TokenizationFails(text) == ~ShlexRun(text, 1, " ", " ", <<>>, <<>>).ok

Callers == {"first", "second"}

C13_MalformedIsBlock100 ==
    \A r \in Callers :
        (analysis[r].done /\ TokenizationFails(analysis[r].text)) =>
            /\ analysis[r].decision = "BLOCK"
            /\ analysis[r].score = 100
            /\ analysis[r].reason = <<<<"Malformed command syntax", <<>>, 0>>>>

\* A malformed text with a pipe in it has been scored: 100, not 130.
C13_Witness ==
    \E r \in Callers :
        /\ analysis[r].done
        /\ TokenizationFails(analysis[r].text)
        /\ Has(analysis[r].text, "|")
        /\ analysis[r].score = 100

(***************************************************************************)
(* C14: every result of CommandGuard.analyze, the early returns for        *)
(* malformed and empty texts included, has decision ALLOW iff score = 0,   *)
(* BLOCK iff score >= 100 and ESCALATE iff 1 <= score <= 99; and the case  *)
(* the orchestrator's decision tree takes on the score is the one of that  *)
(* decision (critical for BLOCK, safe for ALLOW, ambiguous for ESCALATE).  *)
(***************************************************************************)
\* The case of the orchestrator's `if score >= 100 / elif score == 0 / else`.
TreeCase(sc) ==
    IF DecisionTree("NO_MATCH", sc) = "BLOCK" THEN "BLOCK"
    ELSE IF DecisionTree("NO_MATCH", sc) = "EXECUTE" THEN "ALLOW"
    ELSE "ESCALATE"

C14_DecisionMatchesScore ==
    \A r \in Callers :
        analysis[r].done =>
            /\ analysis[r].decision \in {"ALLOW", "BLOCK", "ESCALATE"}
            /\ analysis[r].decision = "ALLOW" <=> analysis[r].score = 0
            /\ analysis[r].decision = "BLOCK" <=> analysis[r].score >= 100
            /\ analysis[r].decision = "ESCALATE" <=> analysis[r].score \in 1..99
            /\ TreeCase(analysis[r].score) = analysis[r].decision
            /\ \A l1 \in {"NO_MATCH", "AUTO_ACCEPT"} :
                  /\ DecisionTree(l1, analysis[r].score) = "BLOCK"
                        => analysis[r].decision = "BLOCK"
                  /\ DecisionTree(l1, analysis[r].score) = "EXECUTE"
                        <=> analysis[r].decision = "ALLOW"

\* A well-formed text scored exactly 100, the lowest blocking score.
C14_Witness ==
    \E r \in Callers :
        /\ analysis[r].done
        /\ ~TokenizationFails(analysis[r].text)
        /\ analysis[r].score = 100
        /\ analysis[r].decision = "BLOCK"

(***************************************************************************)
(* C15: CommandGuard.analyze is a deterministic pure function of the text: *)
(* two calls on the same text, in either order and with other calls in     *)
(* between, return the same decision, score and reasons in the same order; *)
(* the score is a non-negative integer; and a call reads nothing but its   *)
(* text and writes nothing but its own return value: no table, no          *)
(* evaluation and no other call's result changes.                          *)
(***************************************************************************)
C15_State ==
    /\ \A r \in Callers : analysis[r].done => analysis[r].score \in Nat
    /\ \A r1, r2 \in Callers :
          (analysis[r1].done /\ analysis[r2].done
              /\ analysis[r1].text = analysis[r2].text) =>
                /\ analysis[r1].decision = analysis[r2].decision
                /\ analysis[r1].score = analysis[r2].score
                /\ analysis[r1].reason = analysis[r2].reason

C15_Step ==
    \A r \in Callers :
        analysis'[r] # analysis[r] =>
            /\ \A o \in Callers \ {r} : analysis'[o] = analysis[o]
            /\ UNCHANGED <<rules_table, evaluation_vars, credits, command_logs>>
            /\ analysis'[r].done

C16_UnparsableCandidateConflicts ==
    (overlap.done /\ ~parse(new_pattern_str).ok) =>
        /\ overlap.has_conflict
        /\ overlap.reason # None
        /\ overlap.reason # ""
        /\ overlap.examined = 0
        /\ overlap.rule_id = None

\* The unparsable candidate was checked against the empty list.
C16_Witness ==
    /\ overlap.done
    /\ ~parse(new_pattern_str).ok
    /\ existing_patterns = <<>>
    /\ overlap.has_conflict

(***************************************************************************)
(* C18: conflict detection decides overlap with the matching Layer 1 uses  *)
(* at run time (re.search, an unanchored search): for a candidate and one  *)
(* existing pattern that both compile, check_overlap reports a conflict    *)
(* exactly when some command text is matched by both at run time.          *)
(***************************************************************************)
Cmd_rm_rf_tmp == <<"r", "m", " ", "-", "r", "f", " ", "/", "t", "m", "p">>

MatchTexts == Commands \cup {Cmd_rm_rf_tmp}

\* The pattern without a ".*" at its start and at its end.
StripWild(pattern) ==
    LET pre  == Len(pattern) >= 2 /\ SubSeq(pattern, 1, 2) = Wild
        rest == IF pre THEN SubSeq(pattern, 3, Len(pattern)) ELSE pattern
        post == Len(rest) >= 2 /\ SubSeq(rest, Len(rest) - 1, Len(rest)) = Wild
    IN  IF post THEN SubSeq(rest, 1, Len(rest) - 2) ELSE rest

\* re.search(pattern, text) for the patterns of the conflict model: a ".*"
\* at an end of the pattern does not change whether a match is found.
RuntimeMatches(pattern, text) == ReSearch(StripWild(pattern), text)

BothMatchSomeText(p, q) ==
    \E text \in MatchTexts : RuntimeMatches(p, text) /\ RuntimeMatches(q, text)

C18_SameSemanticsAsRuntime ==
    (/\ overlap.done
     /\ Len(existing_patterns) = 1
     /\ parse(new_pattern_str).ok
     /\ parse(existing_patterns[1].pattern).ok) =>
        (overlap.has_conflict
            <=> BothMatchSomeText(new_pattern_str, existing_patterns[1].pattern))

(***************************************************************************)
(* C19: check_overlap("^rm -rf", [{pattern: "^rm -rf /tmp"}]) returns      *)
(* has_conflict = true: both patterns match the command "rm -rf /tmp".     *)
(***************************************************************************)
C19_RmRfOverlapsRmRfTmp ==
    (/\ overlap.done
     /\ new_pattern_str = Pat_rm_rf
     /\ existing_patterns = <<[id |-> RuleId(1), pattern |-> Pat_rm_rf_tmp]>>) =>
        overlap.has_conflict

(***************************************************************************)
(* C17: rule create and rule update are gated by the conflict check.       *)
(* Within one create_rule or update_rule request the rules table is        *)
(* written only after check_overlap returned has_conflict = false for the  *)
(* candidate pattern against the existing rules (on update: all rules but  *)
(* the edited one); when check_overlap reports a conflict, or the check    *)
(* cannot be made, the request is rejected and the table stays as it was.  *)
(***************************************************************************)
C17_Step ==
    LET r == rule_request'
    IN  r.op \in {"create", "update"} =>
          /\ rules_table' # rules_table =>
                /\ r.checked
                /\ ~r.has_conflict
                /\ r.against =
                      IdPattern(IF r.op = "create" THEN rules_table
                                ELSE OtherRows(rules_table, r.rule_id))
                /\ ~check_overlap(r.pattern, r.against).has_conflict
                /\ r.status \in {"200", "201"}
          /\ (r.has_conflict \/ ~r.checked \/ r.status \in {"409", "400", "422"})
                => rules_table' = rules_table
          /\ r.has_conflict => r.status = "409"

C17_WritesGatedByConflictCheck == [][C17_Step]_vars

\* An update went through after the check against the other rules.
C17_Witness ==
    /\ rule_request.op = "update"
    /\ rule_request.status = "200"
    /\ rule_request.checked
    /\ Len(rule_request.against) >= 1
    /\ Len(rules_table) = Len(rule_request.against) + 1

(***************************************************************************)
(* C20: process_command is effect-free on external state.  From its entry  *)
(* to its return or its exception, no step of it changes the rules table,  *)
(* the user's credits or the command log; the credits and the log change   *)
(* only in the caller, execute_command, in the step that follows the       *)
(* returned verdict.                                                       *)
(***************************************************************************)
C20_Step ==
    /\ (pc' # pc \/ result' # result \/ raised' # raised \/ judge_calls' # judge_calls)
          => UNCHANGED <<rules_table, credits, command_logs>>
    /\ (credits' # credits \/ command_logs' # command_logs) =>
          /\ pc = "RETURNED"
          /\ exec_pc = "AWAIT"
          /\ exec_pc' = "RESPONDED"
          /\ UNCHANGED evaluation_vars
    /\ rules_table' = rules_table

C20_ProcessCommandEffectFree == [][C20_Step]_vars

\* The judge let the command through; the caller then took the credit and
\* wrote the log row.
C20_Witness ==
    /\ exec_pc = "RESPONDED"
    /\ judge_calls = 1
    /\ result.status = "EXECUTED"
    /\ credits = user_credits - 1
    /\ Len(command_logs) = 1

(***************************************************************************)
(* C21: during Layer 1 matching a stored rule whose pattern does not       *)
(* compile is skipped.  It is never the matched rule, it does not end the  *)
(* scan, and the rules after it in creation order are still evaluated: the *)
(* scan stops at the first compilable active rule that matches (a REJECT   *)
(* rule there blocks the command) and visits every active rule otherwise.  *)
(***************************************************************************)
BrokenIdx ==
    {i \in 1..Len(rules_table) :
        rules_table[i].is_active /\ ~ReCompiles(rules_table[i].pattern)}

C21_BrokenRuleSkipped ==
    (fetch = "ok" /\ BrokenIdx # {}) =>
        /\ \A i \in BrokenIdx : matched_rule_id # rules_table[i].id
        /\ IF HasFirstMatch
           THEN /\ tested = ActiveUpTo(FirstMatchIdx)
                /\ matched_rule_id = FirstMatch.id
                /\ FirstMatch.action = "AUTO_REJECT" =>
                      /\ pc = "RETURNED"
                      /\ result.status = "BLOCKED"
                      /\ result.layer = "1_RULES"
                      /\ result.matched_rule = FirstMatch.id
           ELSE /\ tested = Len(rules)
                /\ l1_decision = "NO_MATCH"
                /\ matched_rule_id = None

\* A broken rule comes first and the REJECT rule after it blocked the command.
C21_Witness ==
    /\ fetch = "ok"
    /\ Len(rules_table) = 2
    /\ 1 \in BrokenIdx
    /\ HasFirstMatch
    /\ FirstMatchIdx = 2
    /\ result.status = "BLOCKED"
    /\ result.layer = "1_RULES"
    /\ result.matched_rule = rules_table[2].id

(***************************************************************************)
(* C22: in check_overlap an existing pattern that cannot be parsed is      *)
(* skipped and the remaining ones are still checked.  For a candidate that *)
(* parses, the result is has_conflict = true exactly when some parsable    *)
(* existing pattern has a non-empty intersection with it (the rule named   *)
(* is the first such one); a malformed existing rule neither makes the     *)
(* result true by itself nor hides a later conflict.                       *)
(***************************************************************************)
ConflictingIdx ==
    {i \in 1..Len(existing_patterns) :
        /\ parse(existing_patterns[i].pattern).ok
        /\ ~IntersectionEmpty(parse(new_pattern_str),
                              parse(existing_patterns[i].pattern))}

C22_MalformedExistingSkipped ==
    (overlap.done /\ parse(new_pattern_str).ok) =>
        /\ overlap.has_conflict <=> ConflictingIdx # {}
        /\ overlap.has_conflict =>
              /\ overlap.examined \in ConflictingIdx
              /\ \A j \in ConflictingIdx : overlap.examined <= j
              /\ overlap.rule_id = existing_patterns[overlap.examined].id
        /\ ~overlap.has_conflict =>
              /\ overlap.examined = Len(existing_patterns)
              /\ overlap.rule_id = None

\* A malformed existing pattern comes first; the conflict with the pattern
\* after it was still found.
C22_Witness ==
    /\ overlap.done
    /\ parse(new_pattern_str).ok
    /\ Len(existing_patterns) = 2
    /\ ~parse(existing_patterns[1].pattern).ok
    /\ overlap.has_conflict
    /\ overlap.rule_id = existing_patterns[2].id

(***************************************************************************)
(* C23: in CommandGuard.analyze every token after the first that equals a  *)
(* critical-target path, or is a path-prefixed child of one (/etc/passwd   *)
(* under /etc, /tmp/x under /), adds exactly 100, once per token; a token  *)
(* that is neither adds nothing for this step.                             *)
(***************************************************************************)
\* token lies below the directory dir.
PathChild(token, dir) ==
    /\ Len(token) > Len(dir)
    /\ StartsWith(token, IF dir = <<"/">> THEN dir ELSE Append(dir, "/"))

UnderCriticalTarget(token) ==
    \E k \in 1..Len(CRITICAL_TARGETS) :
        token = CRITICAL_TARGETS[k] \/ PathChild(token, CRITICAL_TARGETS[k])

\* The tokens of a scored text after the binary.
ArgTokens(text) == Tail(shlex_split(text).tokens)

Scored(r) ==
    /\ analysis[r].done
    /\ ~TokenizationFails(analysis[r].text)
    /\ shlex_split(analysis[r].text).tokens # <<>>

\* The reason entries with the given label.
Entries(reason, label) == SelectSeq(reason, LAMBDA e : e[1] = label)

C23_CriticalTargetAdds100 ==
    \A r \in Callers :
        Scored(r) =>
            LET hits == Entries(analysis[r].reason, "Critical target")
                want == SelectSeq(ArgTokens(analysis[r].text), UnderCriticalTarget)
            IN  /\ Len(hits) = Len(want)
                /\ \A k \in 1..Len(hits) : hits[k][2] = want[k] /\ hits[k][3] = 100

(***************************************************************************)
(* C24: in CommandGuard.analyze the +50 destructive-combination bonus is   *)
(* added exactly when the first token is rm and, among the other tokens,   *)
(* a force flag and a recursive flag were both seen; the flags that count  *)
(* are the risky-flag literals -f/--force and -r/--recursive, each adding  *)
(* +20 per occurrence, and no other token sets either marker.              *)
(***************************************************************************)
SeenAmong(tokens, flags) == \E k \in 1..Len(tokens) : tokens[k] \in flags

C24_ComboOnlyFromRiskyFlags ==
    \A r \in Callers :
        Scored(r) =>
            LET tokens == shlex_split(analysis[r].text).tokens
                args   == Tail(tokens)
                flags  == Entries(analysis[r].reason, "Risky flag")
                combo  == Entries(analysis[r].reason, "Destructive combination 'rm -rf'")
            IN  /\ Len(flags) = Len(SelectSeq(args, LAMBDA t : t \in RISKY_FLAGS))
                /\ \A k \in 1..Len(flags) : flags[k][3] = 20
                /\ Len(combo) \in {0, 1}
                /\ Len(combo) = 1 <=>
                      /\ tokens[1] = <<"r", "m">>
                      /\ SeenAmong(args, ForceFlags \cap RISKY_FLAGS)
                      /\ SeenAmong(args, RecursiveFlags \cap RISKY_FLAGS)

(***************************************************************************)
(* C25: for the command `rm -rf /etc` CommandGuard.analyze computes        *)
(* 60 (rm) + 20 (force) + 20 (recursive) + 50 (combination) + 100          *)
(* (critical target) = 250, and the decision is BLOCK.                     *)
(***************************************************************************)
C25_RmRfEtcScores250 ==
    \A r \in Callers :
        (analysis[r].done /\ analysis[r].text = Cmd_rm_rf_etc) =>
            /\ analysis[r].score = 250
            /\ analysis[r].decision = "BLOCK"

(***************************************************************************)
(* C27: under any interleaving of create_rule, update_rule and delete_rule *)
(* requests, starting from a rules table without a conflicting pair, the   *)
(* table never holds two rules whose patterns check_overlap reports as     *)
(* conflicting with each other: no request's write comes between another   *)
(* request's conflict check and its write.                                 *)
(***************************************************************************)
ConflictingPair(i, j) ==
    check_overlap(rules_table[i].pattern,
                  <<[id |-> rules_table[j].id, pattern |-> rules_table[j].pattern]>>
                 ).has_conflict

Answered(r) == requests[r].pc # "DONE" /\ requests'[r].pc = "DONE"

C26_Step ==
    \A r \in DOMAIN requests :
        /\ (Answered(r) /\ requests'[r].status = "BLOCKED") =>
              /\ credits' = credits
              /\ requests'[r].credits_used = 0
        /\ (Answered(r) /\ requests'[r].status = "EXECUTED") =>
              /\ credits' = credits - 1
              /\ requests'[r].credits_used = 1
        /\ (requests[r].pc = "IDLE" /\ requests'[r].pc # "IDLE" /\ credits <= 0) =>
              /\ requests'[r].pc = "DONE"
              /\ requests'[r].status = "INSUFFICIENT_CREDITS"
              /\ UNCHANGED <<credits, command_logs>>

C26_CreditOnlyForExecuted == [][C26_Step]_vars

(***************************************************************************)
(* C28: when all concurrent execute_command requests of the user have      *)
(* finished (and the admin changed nothing), the stored credits equal the  *)
(* credits before minus the number of requests answered EXECUTED.          *)
(***************************************************************************)
AllFinished ==
    /\ requests # <<>>
    /\ \A r \in DOMAIN requests : requests[r].pc = "DONE"

ExecutedRequests == {r \in DOMAIN requests : requests[r].status = "EXECUTED"}

C28_NoLostDeduction ==
    (AllFinished /\ ledger.admin_updates = 0) =>
        credits = ledger.initial - Cardinality(ExecutedRequests)

(***************************************************************************)
(* C29: the stored credits are never negative, and every value that        *)
(* execute_command writes to them is >= 0, whatever the interleaving of    *)
(* the requests, their verdicts and the admin's (non-negative) updates.    *)
(***************************************************************************)
C29_CreditsNeverNegative ==
    /\ credits >= 0
    /\ \A r \in DOMAIN requests : requests[r].wrote => requests[r].written >= 0

\* Two requests read the last credit, both were answered EXECUTED and both
\* wrote 0.
C29_Witness ==
    /\ requests # <<>>
    /\ \E r1, r2 \in DOMAIN requests :
          /\ r1 # r2
          /\ requests[r1].wrote /\ requests[r1].written = 0
          /\ requests[r2].wrote /\ requests[r2].written = 0
    /\ credits = 0

(***************************************************************************)
(* C30: an ACCEPT match influences the decision only at score >= 100.      *)
(* Below 100 the verdict's status, layer and score are a function of the   *)
(* command's score and the Judge's answer alone, the same function for an  *)
(* evaluation whose Layer 1 outcome is AUTO_ACCEPT and for one whose       *)
(* outcome is NO_MATCH, so two such evaluations of one command with one    *)
(* Judge response agree on them and differ in matched_rule only; and a     *)
(* verdict of EXECUTED after an ACCEPT match comes from a score of 0 or    *)
(* from the Judge saying EXECUTED, never from the match itself.  The Layer  *)
(* 1 outcome is the one Layer 2 was entered with (a REJECT match returns   *)
(* before Layer 2).                                                        *)
(***************************************************************************)
JudgeAnswer ==
    IF GEMINI_API_KEY THEN judge_command(judge_response) ELSE JudgeUnavailable

\* What status, layer and score depend on below 100: no Layer 1 outcome.
VerdictBelow100(sc) ==
    IF sc = 0
    THEN [status |-> "EXECUTED", layer |-> "2_GUARD", score |-> 0]
    ELSE [status |-> JudgeAnswer.status, layer |-> "3_AI", score |-> sc]

C30_AcceptMatchHasNoSayBelow100 ==
    /\ (/\ pc = "RETURNED"
        /\ Layer2Ran
        /\ l1_decision \in {"AUTO_ACCEPT", "NO_MATCH"}
        /\ analyze(command_text).score < 100) =>
           /\ [status |-> result.status, layer |-> result.layer,
               score |-> result.score]
                 = VerdictBelow100(analyze(command_text).score)
           /\ result.matched_rule =
                 (IF l1_decision = "AUTO_ACCEPT" THEN FirstMatch.id ELSE None)
    /\ (/\ pc = "RETURNED"
        /\ l1_decision = "AUTO_ACCEPT"
        /\ result.status = "EXECUTED") =>
           \/ result.score = 0
           \/ /\ judge_calls = 1
              /\ GEMINI_API_KEY
              /\ judge_response.status = "EXECUTED"

\* The Judge blocked a command of ambiguous score that an ACCEPT rule matched.
C30_Witness ==
    /\ pc = "RETURNED"
    /\ l1_decision = "AUTO_ACCEPT"
    /\ score \in 1..99
    /\ result.status = "BLOCKED"
    /\ result.layer = "3_AI"
    /\ result.matched_rule # None
    /\ judge_response.status = "BLOCKED"

=============================================================================
